---- MODULE Spec2Model ----
(***************************************************************************)
(* EV state bookkeeping of emhass-ev: ElectricVehicle and EVManager        *)
(* (src/src/emhass/ev.py).                                                 *)
(*                                                                         *)
(* Python floats are modelled as a binary floating-point format with Prec  *)
(* significand bits, gradual underflow, round-to-nearest-even, +-inf and   *)
(* nan.  binary64 is the same format with 53 significand bits.  Signed     *)
(* zero is not modelled: no operation of ev.py distinguishes -0.0 from 0.0.*)
(***************************************************************************)
EXTENDS Integers, Sequences, FiniteSets, TLC

\* ------------------------------------------------------------ float format
\* Significand bits of the modelled float format.
Prec == 7
\* A finite float is an integer number of units of 2^-FracBits.
FracBits == 2 * Prec
\* Largest exponent of a unit multiple: finite floats are m * 2^k units with
\* 0 <= m < 2^Prec and 0 <= k <= TopShift.
TopShift == 29 - Prec

Pow2(k) == 2 ^ k
MaxI(a, b) == IF a >= b THEN a ELSE b
AbsI(a) == IF a < 0 THEN 0 - a ELSE a

Fin(n) == [cls |-> "fin", v |-> n]
PosInf == [cls |-> "inf", v |-> 1]
NegInf == [cls |-> "inf", v |-> 0 - 1]
NaN == [cls |-> "nan", v |-> 0]
\* The marker of an arithmetic operation that raised ZeroDivisionError.
ZeroDiv == [cls |-> "raise", v |-> 0]
InfOf(neg) == IF neg THEN NegInf ELSE PosInf

IsFin(a) == a.cls = "fin"
IsInf(a) == a.cls = "inf"
IsNaN(a) == a.cls = "nan"
IsRaise(a) == a.cls = "raise"
IsNeg(a) == a.v < 0

MaxFinite == (Pow2(Prec) - 1) * Pow2(TopShift)
MinNormal == Pow2(Prec - 1)

RECURSIVE BitLen(_)
BitLen(x) == IF x = 0 THEN 0 ELSE 1 + BitLen(x \div 2)

\* n = Mant(n) * 2^Expo(n) with Mant(n) < 2^Prec, for a representable n > 0.
RECURSIVE Expo(_)
Expo(n) == IF n < Pow2(Prec) THEN 0 ELSE 1 + Expo(n \div 2)
Mant(n) == n \div Pow2(Expo(n))

Representable(n) == AbsI(n) <= MaxFinite /\ Mant(AbsI(n)) * Pow2(Expo(AbsI(n))) = AbsI(n)

\* The float nearest to (num / den) * 2^e units (ties to even), negated when
\* neg; num >= 0, den > 0.  Overflow gives an infinity, underflow is gradual.
RoundUnits(neg, num, den, e) ==
  IF num = 0 THEN Fin(0)
  ELSE LET s == MaxI(0, Prec + 2 + BitLen(den) - BitLen(num))
           sc == num * Pow2(s)
           q == sc \div den
           sticky == (sc % den) # 0
           t == e - s
           bl == BitLen(q)
           drop == MaxI(bl - Prec, 0 - t)
       IN IF drop > bl THEN Fin(0)
          ELSE LET lo == q % Pow2(drop)
                   hi == q \div Pow2(drop)
                   half == Pow2(drop - 1)
                   up == lo > half \/ (lo = half /\ (sticky \/ hi % 2 = 1))
                   m == IF up THEN hi + 1 ELSE hi
                   x == t + drop
               IN IF m = 0 THEN Fin(0)
                  ELSE IF x > TopShift \/ (x = TopShift /\ m >= Pow2(Prec))
                       THEN InfOf(neg)
                  ELSE Fin((IF neg THEN 0 - 1 ELSE 1) * m * Pow2(x))

\* The float a decimal literal num/den denotes (float("0.9") = Lit(9, 10)).
Lit(num, den) == RoundUnits(num < 0, AbsI(num), den, FracBits)

Zero == Fin(0)
One == Fin(Pow2(FracBits))

\* a * b
FMul(a, b) ==
  IF IsRaise(a) \/ IsRaise(b) THEN ZeroDiv
  ELSE IF IsNaN(a) \/ IsNaN(b) THEN NaN
  ELSE IF (IsInf(a) /\ b.v = 0) \/ (IsInf(b) /\ a.v = 0) THEN NaN
  ELSE IF IsInf(a) \/ IsInf(b) THEN InfOf(IsNeg(a) # IsNeg(b))
  ELSE IF a.v = 0 \/ b.v = 0 THEN Fin(0)
  ELSE LET na == AbsI(a.v)
           nb == AbsI(b.v)
       IN RoundUnits(IsNeg(a) # IsNeg(b), Mant(na) * Mant(nb), 1,
                     Expo(na) + Expo(nb) - FracBits)

\* a / b; a zero divisor raises ZeroDivisionError whatever the dividend.
FDiv(a, b) ==
  IF IsRaise(a) \/ IsRaise(b) THEN ZeroDiv
  ELSE IF IsFin(b) /\ b.v = 0 THEN ZeroDiv
  ELSE IF IsNaN(a) \/ IsNaN(b) THEN NaN
  ELSE IF IsInf(a) /\ IsInf(b) THEN NaN
  ELSE IF IsInf(a) THEN InfOf(IsNeg(a) # IsNeg(b))
  ELSE IF IsInf(b) \/ a.v = 0 THEN Fin(0)
  ELSE LET na == AbsI(a.v)
           nb == AbsI(b.v)
       IN RoundUnits(IsNeg(a) # IsNeg(b), Mant(na), Mant(nb),
                     Expo(na) - Expo(nb) + FracBits)

\* a + b
FAdd(a, b) ==
  IF IsRaise(a) \/ IsRaise(b) THEN ZeroDiv
  ELSE IF IsNaN(a) \/ IsNaN(b) THEN NaN
  ELSE IF IsInf(a) /\ IsInf(b) THEN (IF a.v = b.v THEN a ELSE NaN)
  ELSE IF IsInf(a) THEN a
  ELSE IF IsInf(b) THEN b
  ELSE RoundUnits(a.v + b.v < 0, AbsI(a.v + b.v), 1, 0)

\* a < b and a <= b on floats; any comparison with nan is false.
FLt(a, b) ==
  IF IsNaN(a) \/ IsNaN(b) THEN FALSE
  ELSE IF IsInf(a) THEN IsNeg(a) /\ a # b
  ELSE IF IsInf(b) THEN ~IsNeg(b)
  ELSE a.v < b.v
FLe(a, b) ==
  IF IsNaN(a) \/ IsNaN(b) THEN FALSE ELSE a = b \/ FLt(a, b)

\* Python's builtin min(a, b) and max(a, b): the first argument unless the
\* second compares strictly smaller (larger).
PyMin(a, b) == IF FLt(b, a) THEN b ELSE a
PyMax(a, b) == IF FLt(a, b) THEN b ELSE a

\* ------------------------------------------------------------ ElectricVehicle
\* What a method call leaves behind: the object after the call, the returned
\* value (<<>> for None, <<x>> for a value, <<a, b>> for a tuple), the exception
\* raised ("none" when it returned) and the levels of the log records emitted.
Outcome(self, ret, exc, log) == [self |-> self, ret |-> ret, exc |-> exc, log |-> log]

\* ElectricVehicle.__init__
ElectricVehicle(ev_index, battery_capacity, charging_efficiency, nominal_charging_power, minimum_charging_power, consumption_efficiency) ==
  [ev_index |-> ev_index,
   battery_capacity |-> battery_capacity,
   charging_efficiency |-> charging_efficiency,
   nominal_charging_power |-> nominal_charging_power,
   minimum_charging_power |-> minimum_charging_power,
   consumption_efficiency |-> consumption_efficiency,
   soc |-> Lit(5, 10),
   is_available |-> FALSE,
   minimum_required_soc |-> Lit(2, 10)]

\* 0 <= soc <= 1
InUnitRange(soc) == FLe(Zero, soc) /\ FLe(soc, One)

\* Mutant of Clamp01: the upper clamp forgotten, max(0.0, soc).
Clamp01_NoUpper(soc) == PyMax(Zero, soc)

\* max(0.0, min(1.0, soc))
Clamp01(soc) == PyMax(Zero, PyMin(One, soc))

\* Mutant of ClampAndWarn: the warning is logged but the input is stored as given.
ClampAndWarn_StoresInput(soc) ==
  IF ~InUnitRange(soc)
  THEN [value |-> soc, log |-> <<"warning", "debug">>]
  ELSE [value |-> soc, log |-> <<"debug">>]

\* The value set_soc and set_minimum_required_soc store, with the log levels.
ClampAndWarn(soc) ==
  IF ~InUnitRange(soc)
  THEN [value |-> Clamp01(soc), log |-> <<"warning", "debug">>]
  ELSE [value |-> soc, log |-> <<"debug">>]

set_soc(self, soc) ==
  LET c == ClampAndWarn(soc)
  IN Outcome([self EXCEPT !.soc = c.value], <<>>, "none", c.log)

get_soc(self) == Outcome(self, <<self.soc>>, "none", <<>>)

get_energy_level(self) ==
  Outcome(self, <<FMul(self.soc, self.battery_capacity)>>, "none", <<>>)

\* Mutant of set_availability: availability can be switched on but never off.
set_availability_Sticky(self, is_available) ==
  Outcome([self EXCEPT !.is_available = self.is_available \/ is_available],
          <<>>, "none", <<"debug">>)

set_availability(self, is_available) ==
  Outcome([self EXCEPT !.is_available = is_available], <<>>, "none", <<"debug">>)

set_minimum_required_soc(self, soc) ==
  LET c == ClampAndWarn(soc)
  IN Outcome([self EXCEPT !.minimum_required_soc = c.value], <<>>, "none", c.log)

\* A float result as an outcome: a raised ZeroDivisionError returns nothing.
Returning(self, value) ==
  IF IsRaise(value) THEN Outcome(self, <<>>, "ZeroDivisionError", <<>>)
  ELSE Outcome(self, <<value>>, "none", <<>>)

WhPerKwh == Lit(1000, 1)

km_to_energy(self, distance_km) ==
  LET energy_kwh == FMul(distance_km, self.consumption_efficiency)
      energy_wh == FMul(energy_kwh, WhPerKwh)
  IN Returning(self, energy_wh)

\* Mutant of energy_to_km: the Wh to kWh conversion left out.
energy_to_km_NoKwh(self, energy_wh) ==
  Returning(self, FDiv(energy_wh, self.consumption_efficiency))

energy_to_km(self, energy_wh) ==
  LET energy_kwh == FDiv(energy_wh, WhPerKwh)
      range_km == FDiv(energy_kwh, self.consumption_efficiency)
  IN Returning(self, range_km)

get_current_range(self) ==
  energy_to_km(self, get_energy_level(self).ret[1])

\* Mutant of calculate_soc_delta: the charging efficiency left out.
calculate_soc_delta_NoEfficiency(self, charging_power, time_step) ==
  Returning(self, FDiv(FMul(charging_power, time_step), self.battery_capacity))

calculate_soc_delta(self, charging_power, time_step) ==
  LET energy_charged == FMul(FMul(charging_power, time_step), self.charging_efficiency)
      soc_delta == FDiv(energy_charged, self.battery_capacity)
  IN Returning(self, soc_delta)

\* Mutant of update_soc: nothing is charged while the vehicle is unavailable.
update_soc_GatedByAvailability(self, charging_power, time_step) ==
  LET d == calculate_soc_delta(self, charging_power, time_step)
  IN IF d.exc # "none" THEN d
     ELSE IF ~self.is_available THEN Outcome(self, <<self.soc>>, "none", <<>>)
     ELSE LET new_soc == Clamp01(FAdd(self.soc, d.ret[1]))
              s == set_soc(self, new_soc)
          IN Outcome(s.self, <<new_soc>>, "none", s.log)

\* Mutant of update_soc: the clamp before set_soc left out.
update_soc_Unclamped(self, charging_power, time_step) ==
  LET d == calculate_soc_delta(self, charging_power, time_step)
  IN IF d.exc # "none" THEN d
     ELSE LET new_soc == FAdd(self.soc, d.ret[1])
              s == set_soc(self, new_soc)
          IN Outcome(s.self, <<new_soc>>, "none", s.log)

\* Mutant of update_soc: the delta subtracted instead of added.
update_soc_Discharges(self, charging_power, time_step) ==
  LET d == calculate_soc_delta(self, charging_power, time_step)
  IN IF d.exc # "none" THEN d
     ELSE LET new_soc == Clamp01(FAdd(self.soc, FMul(Lit(0 - 1, 1), d.ret[1])))
              s == set_soc(self, new_soc)
          IN Outcome(s.self, <<new_soc>>, "none", s.log)

update_soc(self, charging_power, time_step) ==
  LET d == calculate_soc_delta(self, charging_power, time_step)
  IN IF d.exc # "none" THEN d
     ELSE LET new_soc == Clamp01(FAdd(self.soc, d.ret[1]))
              s == set_soc(self, new_soc)
          IN Outcome(s.self, <<new_soc>>, "none", s.log)

get_charging_power_bounds(self) ==
  IF ~self.is_available THEN Outcome(self, <<Zero, Zero>>, "none", <<>>)
  ELSE Outcome(self, <<self.minimum_charging_power, self.nominal_charging_power>>,
               "none", <<>>)

\* ------------------------------------------------------------ EVManager
\* dict.get(key, default)
DictGet(d, key, default) == IF key \in DOMAIN d THEN d[key] ELSE default

\* Mutant of ConfigComplete: the check of the consumption sequence left out.
ConfigComplete_SkipsLast(battery_capacities, charging_efficiencies, nominal_powers, minimum_powers, consumptions, n) ==
  /\ Len(battery_capacities) >= n
  /\ Len(charging_efficiencies) >= n
  /\ Len(nominal_powers) >= n
  /\ Len(minimum_powers) >= n

\* The validation of _initialize_evs: all([len(...) >= self.num_evs, ...])
ConfigComplete(battery_capacities, charging_efficiencies, nominal_powers, minimum_powers, consumptions, n) ==
  /\ Len(battery_capacities) >= n
  /\ Len(charging_efficiencies) >= n
  /\ Len(nominal_powers) >= n
  /\ Len(minimum_powers) >= n
  /\ Len(consumptions) >= n

\* The loop of _initialize_evs from position i on, acc being self.evs so far.
\* Subscripting a list past its end raises IndexError and leaves self.evs as
\* it is at that point.
RECURSIVE create_evs(_, _, _, _, _, _, _, _)
create_evs(battery_capacities, charging_efficiencies, nominal_powers, minimum_powers, consumptions, n, i, acc) ==
  IF i >= n THEN [evs |-> acc, exc |-> "none"]
  ELSE IF \/ Len(battery_capacities) <= i
          \/ Len(charging_efficiencies) <= i
          \/ Len(nominal_powers) <= i
          \/ Len(minimum_powers) <= i
          \/ Len(consumptions) <= i
       THEN [evs |-> acc, exc |-> "IndexError"]
  ELSE create_evs(battery_capacities, charging_efficiencies, nominal_powers,
                  minimum_powers, consumptions, n, i + 1,
                  Append(acc, ElectricVehicle(i, battery_capacities[i + 1],
                                              charging_efficiencies[i + 1],
                                              nominal_powers[i + 1],
                                              minimum_powers[i + 1],
                                              consumptions[i + 1])))

\* Mutant of initialize_evs: the two power sequences read from each other's key.
initialize_evs_SwappedPowers(conf, n) ==
  LET battery_capacities == DictGet(conf, "ev_battery_capacity", <<>>)
      charging_efficiencies == DictGet(conf, "ev_charging_efficiency", <<>>)
      nominal_powers == DictGet(conf, "ev_minimum_charging_power", <<>>)
      minimum_powers == DictGet(conf, "ev_nominal_charging_power", <<>>)
      consumptions == DictGet(conf, "ev_consumption_efficiency", <<>>)
  IN IF ~ConfigComplete(battery_capacities, charging_efficiencies, nominal_powers,
                        minimum_powers, consumptions, n)
     THEN [evs |-> <<>>, exc |-> "ValueError"]
     ELSE create_evs(battery_capacities, charging_efficiencies, nominal_powers,
                     minimum_powers, consumptions, n, 0, <<>>)

initialize_evs(conf, n) ==
  LET battery_capacities == DictGet(conf, "ev_battery_capacity", <<>>)
      charging_efficiencies == DictGet(conf, "ev_charging_efficiency", <<>>)
      nominal_powers == DictGet(conf, "ev_nominal_charging_power", <<>>)
      minimum_powers == DictGet(conf, "ev_minimum_charging_power", <<>>)
      consumptions == DictGet(conf, "ev_consumption_efficiency", <<>>)
  IN IF ~ConfigComplete(battery_capacities, charging_efficiencies, nominal_powers,
                        minimum_powers, consumptions, n)
     THEN [evs |-> <<>>, exc |-> "ValueError"]
     ELSE create_evs(battery_capacities, charging_efficiencies, nominal_powers,
                     minimum_powers, consumptions, n, 0, <<>>)

\* EVManager.__init__: the fields of the manager and how construction ended.
EVManager(p_conf, o_conf) ==
  LET n == DictGet(o_conf, "number_of_ev_loads", 0)
  IN IF n > 0
     THEN LET r == initialize_evs(p_conf, n)
          IN [num_evs |-> n, evs |-> r.evs, exc |-> r.exc]
     ELSE [num_evs |-> n, evs |-> <<>>, exc |-> "none"]

\* Mutant of is_enabled: a count of zero taken for enabled.
is_enabled_NonNegative(n) == n >= 0

is_enabled(n) == n > 0

\* Mutant of get_ev: the lower bound left out, so that a negative index
\* subscripts the list from its end, as Python lists do.
get_ev_NoLowerBound(l, index) ==
  IF index < Len(l) /\ index >= 0 - Len(l)
  THEN [ret |-> <<l[IF index >= 0 THEN index + 1 ELSE Len(l) + index + 1]>>, log |-> <<>>]
  ELSE [ret |-> <<>>, log |-> <<"warning">>]

\* get_ev on the list l: the vehicle or None (<<>>), and the log levels.
get_ev(l, index) ==
  IF 0 <= index /\ index < Len(l)
  THEN [ret |-> <<l[index + 1]>>, log |-> <<>>]
  ELSE [ret |-> <<>>, log |-> <<"warning">>]

\* Mutant of set_availability_schedule: the first entry of the schedule applied
\* to the vehicle.
set_availability_schedule_Applies(l, ev_index, availability_array) ==
  LET ev == get_ev(l, ev_index)
  IN IF ev.ret = <<>> THEN [evs |-> l, log |-> ev.log]
     ELSE [evs |-> IF availability_array = <<>> THEN l
                   ELSE [l EXCEPT ![ev_index + 1].is_available =
                                    (availability_array[1] = 1)],
           log |-> <<"info">>]

\* The two schedule hooks: the vehicle list they leave, and the log levels.
set_availability_schedule(l, ev_index, availability_array) ==
  LET ev == get_ev(l, ev_index)
  IN IF ev.ret = <<>> THEN [evs |-> l, log |-> ev.log]
     ELSE [evs |-> l, log |-> <<"info">>]

set_range_requirements(l, ev_index, range_requirements_km) ==
  LET ev == get_ev(l, ev_index)
  IN IF ev.ret = <<>> THEN [evs |-> l, log |-> ev.log]
     ELSE [evs |-> l, log |-> <<"info">>]

\* ------------------------------------------------------------ state
VARIABLES
  optim_conf,   \* the optim_conf dict handed to EVManager
  plant_conf,   \* the plant_conf dict handed to EVManager
  pc,           \* "new" before EVManager(...), then "ready", or "failed" when it raised
  num_evs,      \* EVManager.num_evs
  evs,          \* EVManager.evs, the ElectricVehicle objects in list order
  last          \* the most recent call: operation, vehicle position, arguments, outcome

vars == <<optim_conf, plant_conf, pc, num_evs, evs, last>>

Call(op, ev, args, ret, exc, log) ==
  [op |-> op, ev |-> ev, args |-> args, ret |-> ret, exc |-> exc, log |-> log]

\* ------------------------------------------------------------ inputs
\* Longest configuration sequence of the registry-level specification.
MaxLen == 3
\* Largest configured count: one more than any sequence can serve.
MaxCount == MaxLen + 1

SocInputs == {Lit(0 - 1, 2), Zero, Lit(3, 4), One, Lit(3, 2), NaN}
MinSocInputs == {Lit(0 - 1, 2), Lit(2, 10), Lit(3, 2)}
\* (charging_power, time_step) pairs: discharge, a discharge too small to
\* register, idle, charge, and an infinite power over no time (inf * 0 = nan).
PowerSteps ==
  {<<Lit(0 - 4, 1), Lit(1, 2)>>, <<Fin(0 - 8), Lit(1, 2)>>, <<Zero, Lit(1, 2)>>,
   <<Lit(4, 1), Lit(1, 2)>>, <<PosInf, Zero>>}
DistanceInputs ==
  {Zero, Fin(1), Lit(1, 10), Lit(1, 4), Lit(1, 1), Lit(3, 1), Lit(7, 1), Lit(100, 1),
   Fin(MaxFinite)}
EnergyInputs == {Zero, Lit(15, 1), Lit(0 - 15, 1), PosInf}
IndexInputs == (0 - 1)..MaxCount
AvailabilityArrays == {<<>>, <<1, 0>>}
RangeArrays == {<<>>, <<Lit(50, 1)>>}

ConfKeys ==
  <<"ev_battery_capacity", "ev_charging_efficiency", "ev_nominal_charging_power",
    "ev_minimum_charging_power", "ev_consumption_efficiency">>

PlantConf(bc, ce, np, mp, co) ==
  [k \in {ConfKeys[j] : j \in 1..5} |->
     CASE k = ConfKeys[1] -> bc
       [] k = ConfKeys[2] -> ce
       [] k = ConfKeys[3] -> np
       [] k = ConfKeys[4] -> mp
       [] OTHER -> co]

CountConf(n) == [k \in {"number_of_ev_loads"} |-> n]
EmptyDict == [k \in {} |-> 0]

\* Configurations of the vehicle-level specification: one finely resolved
\* vehicle; two vehicles (the second with zero capacity and consumption, and a
\* minimum power above its maximum) with a longer-than-needed configuration;
\* and no configuration at all.
VehicleConfigs ==
  {[o |-> CountConf(1),
    p |-> PlantConf(<<Lit(8, 1)>>, <<Lit(9, 10)>>, <<Lit(4, 1)>>, <<Lit(1, 1)>>,
                    <<Lit(15, 100)>>)],
   [o |-> CountConf(2),
    p |-> PlantConf(<<Lit(1, 1), Zero, Lit(8, 1)>>,
                    <<One, Lit(9, 10), One>>,
                    <<Lit(2, 1), Lit(4, 1), Lit(3, 1)>>,
                    <<Lit(1, 1), Lit(6, 1), Zero>>,
                    <<Lit(18, 100), Zero, Lit(1, 4)>>)],
   [o |-> EmptyDict, p |-> EmptyDict]}

\* Configurations of the registry-level specification: every count from -1 to
\* MaxLen or none, and each of the five sequences absent or of any length up
\* to MaxLen, with entries that differ by key and by position.
ConfEntry(j, i) == Lit(8 * j + i, 8)
ConfSeq(j, len) == [i \in 1..len |-> ConfEntry(j, i)]
RegistryPlantConfs ==
  {[k \in {ConfKeys[j] : j \in {x \in 1..5 : lens[x] >= 0}} |->
      LET j == CHOOSE x \in 1..5 : ConfKeys[x] = k IN ConfSeq(j, lens[j])] :
     lens \in [1..5 -> (0 - 1)..MaxLen]}
RegistryOptimConfs == {EmptyDict} \cup {CountConf(n) : n \in (0 - 1)..MaxCount}

\* Configurations of the conversion specification: one vehicle, its
\* consumption drawn from ConsumptionInputs.
ConsumptionInputs ==
  {Zero, Lit(15, 100), Lit(17, 100), Lit(18, 100), Lit(2, 10),
   Lit(1, 4), Lit(1, 3), One, Lit(3, 1), Fin(MaxFinite)}
ConversionConfigs ==
  {[o |-> CountConf(1),
    p |-> PlantConf(<<Lit(8, 1)>>, <<Lit(9, 10)>>, <<Lit(4, 1)>>, <<Lit(1, 1)>>, <<c>>)] :
     c \in ConsumptionInputs}

\* Configurations of the charging specification: one vehicle, its capacity and
\* charging efficiency drawn from positive values, an infinite one among them.
CapacityInputs == {Lit(1, 1), Lit(8, 1), PosInf}
EfficiencyInputs == {Lit(9, 10), One}
ChargeConfigs ==
  {[o |-> CountConf(1),
    p |-> PlantConf(<<bc>>, <<ce>>, <<Lit(4, 1)>>, <<Lit(1, 1)>>, <<Lit(15, 100)>>)] :
     bc \in CapacityInputs, ce \in EfficiencyInputs}
\* Charging powers from the largest discharge to the largest charge, the
\* smallest ones of either sign among them, and positive time steps up to inf.
ChargePowers ==
  {Fin(0 - MaxFinite), Lit(0 - 4, 1), Fin(0 - 8), Fin(0 - 1), Zero, Fin(1), Fin(8),
   Lit(4, 1), Fin(MaxFinite)}
ChargeTimes == {Lit(1, 2), Fin(MaxFinite), PosInf}

\* ------------------------------------------------------------ operations
NoCall == Call("none", 0 - 1, <<>>, <<>>, "none", <<>>)

InitWith(o, p) ==
  /\ optim_conf = o
  /\ plant_conf = p
  /\ pc = "new"
  /\ num_evs = 0
  /\ evs = <<>>
  /\ last = NoCall

Init == \E c \in VehicleConfigs : InitWith(c.o, c.p)
InitRegistry ==
  \E o \in RegistryOptimConfs : \E p \in RegistryPlantConfs : InitWith(o, p)
InitConversion == \E c \in ConversionConfigs : InitWith(c.o, c.p)
InitCharge == \E c \in ChargeConfigs : InitWith(c.o, c.p)

\* EVManager(plant_conf, optim_conf, logger)
Construct ==
  /\ pc = "new"
  /\ LET m == EVManager(plant_conf, optim_conf)
     IN /\ num_evs' = m.num_evs
        /\ evs' = m.evs
        /\ pc' = IF m.exc = "none" THEN "ready" ELSE "failed"
        /\ last' = Call("EVManager", 0 - 1, <<>>, <<>>, m.exc, <<>>)
  /\ UNCHANGED <<optim_conf, plant_conf>>

\* A method call on the vehicle at list position i (ev_index i - 1).
VehicleCall(i, op, args, o) ==
  /\ pc = "ready"
  /\ i \in 1..Len(evs)
  /\ evs' = [evs EXCEPT ![i] = o.self]
  /\ last' = Call(op, i - 1, args, o.ret, o.exc, o.log)
  /\ UNCHANGED <<optim_conf, plant_conf, pc, num_evs>>

SetSoc(i, soc) == VehicleCall(i, "set_soc", <<soc>>, set_soc(evs[i], soc))
GetSoc(i) == VehicleCall(i, "get_soc", <<>>, get_soc(evs[i]))
GetEnergyLevel(i) == VehicleCall(i, "get_energy_level", <<>>, get_energy_level(evs[i]))
SetAvailability(i, b) ==
  VehicleCall(i, "set_availability", <<b>>, set_availability(evs[i], b))
SetMinimumRequiredSoc(i, soc) ==
  VehicleCall(i, "set_minimum_required_soc", <<soc>>,
              set_minimum_required_soc(evs[i], soc))
KmToEnergy(i, d) == VehicleCall(i, "km_to_energy", <<d>>, km_to_energy(evs[i], d))
EnergyToKm(i, e) == VehicleCall(i, "energy_to_km", <<e>>, energy_to_km(evs[i], e))
GetCurrentRange(i) ==
  VehicleCall(i, "get_current_range", <<>>, get_current_range(evs[i]))
CalculateSocDelta(i, p, t) ==
  VehicleCall(i, "calculate_soc_delta", <<p, t>>, calculate_soc_delta(evs[i], p, t))
UpdateSoc(i, p, t) == VehicleCall(i, "update_soc", <<p, t>>, update_soc(evs[i], p, t))
GetChargingPowerBounds(i) ==
  VehicleCall(i, "get_charging_power_bounds", <<>>, get_charging_power_bounds(evs[i]))

\* The energies energy_to_km is called with: the fixed inputs and every result
\* km_to_energy returns on that vehicle.
EnergiesOf(i) ==
  EnergyInputs \cup
  {km_to_energy(evs[i], d).ret[1] : d \in {x \in DistanceInputs :
                                           km_to_energy(evs[i], x).exc = "none"}}

IsEnabled ==
  /\ pc = "ready"
  /\ last' = Call("is_enabled", 0 - 1, <<>>, <<is_enabled(num_evs)>>, "none", <<>>)
  /\ UNCHANGED <<optim_conf, plant_conf, pc, num_evs, evs>>

GetEv(index) ==
  /\ pc = "ready"
  /\ LET r == get_ev(evs, index)
     IN last' = Call("get_ev", index, <<>>, r.ret, "none", r.log)
  /\ UNCHANGED <<optim_conf, plant_conf, pc, num_evs, evs>>

SetAvailabilitySchedule(index, a) ==
  /\ pc = "ready"
  /\ LET r == set_availability_schedule(evs, index, a)
     IN /\ evs' = r.evs
        /\ last' = Call("set_availability_schedule", index, <<a>>, <<>>, "none", r.log)
  /\ UNCHANGED <<optim_conf, plant_conf, pc, num_evs>>

SetRangeRequirements(index, a) ==
  /\ pc = "ready"
  /\ LET r == set_range_requirements(evs, index, a)
     IN /\ evs' = r.evs
        /\ last' = Call("set_range_requirements", index, <<a>>, <<>>, "none", r.log)
  /\ UNCHANGED <<optim_conf, plant_conf, pc, num_evs>>

RegistryNext ==
  \/ Construct
  \/ IsEnabled
  \/ \E index \in IndexInputs : GetEv(index)

HookNext ==
  \/ \E index \in IndexInputs : \E a \in AvailabilityArrays :
       SetAvailabilitySchedule(index, a)
  \/ \E index \in IndexInputs : \E a \in RangeArrays : SetRangeRequirements(index, a)

StateNext ==
  \/ \E i \in 1..Len(evs) : \E soc \in SocInputs : SetSoc(i, soc)
  \/ \E i \in 1..Len(evs) : GetSoc(i)
  \/ \E i \in 1..Len(evs) : \E b \in BOOLEAN : SetAvailability(i, b)
  \/ \E i \in 1..Len(evs) : \E soc \in MinSocInputs : SetMinimumRequiredSoc(i, soc)
  \/ \E i \in 1..Len(evs) : \E a \in PowerSteps : UpdateSoc(i, a[1], a[2])
  \/ \E i \in 1..Len(evs) : GetChargingPowerBounds(i)

ConversionNext ==
  \/ Construct
  \/ \E i \in 1..Len(evs) : \E soc \in SocInputs : SetSoc(i, soc)
  \/ \E i \in 1..Len(evs) : GetEnergyLevel(i)
  \/ \E i \in 1..Len(evs) : \E d \in DistanceInputs : KmToEnergy(i, d)
  \/ \E i \in 1..Len(evs) : \E e \in EnergiesOf(i) : EnergyToKm(i, e)
  \/ \E i \in 1..Len(evs) : GetCurrentRange(i)
  \/ \E i \in 1..Len(evs) : \E a \in PowerSteps : CalculateSocDelta(i, a[1], a[2])

ChargeNext ==
  \/ Construct
  \/ \E i \in 1..Len(evs) : \E soc \in SocInputs : SetSoc(i, soc)
  \/ \E i \in 1..Len(evs) : \E p \in ChargePowers : \E t \in ChargeTimes : UpdateSoc(i, p, t)

Next == RegistryNext \/ HookNext \/ StateNext

\* Vehicle-level specification: the three VehicleConfigs, the registry's
\* operations and every operation that reads or writes a vehicle's state.
Spec == Init /\ [][Next]_vars
\* Registry-level specification: every configuration shape, construction and lookup.
SpecRegistry == InitRegistry /\ [][RegistryNext]_vars
\* Conversion specification: the arithmetic of one vehicle over many consumptions.
SpecConversion == InitConversion /\ [][ConversionNext]_vars
\* Charging specification: update_soc of one vehicle over many powers and steps.
SpecCharge == InitCharge /\ [][ChargeNext]_vars

\* ------------------------------------------------------------ claims
\* Reading the float representation directly, without the float operators.
UnitInterval(x) == x.cls = "fin" /\ 0 <= x.v /\ x.v <= Pow2(FracBits)
\* max(0, min(1, x)) as the claims use it; for nan the value Python's builtins give.
Clamped(x) ==
  CASE x.cls = "nan" -> Fin(Pow2(FracBits))
    [] x.cls = "inf" -> IF x.v < 0 THEN Fin(0) ELSE Fin(Pow2(FracBits))
    [] OTHER -> IF x.v < 0 THEN Fin(0)
                ELSE IF x.v > Pow2(FracBits) THEN Fin(Pow2(FracBits)) ELSE x

\* C1: in every reachable state every vehicle's soc and minimum_required_soc
\* lie in [0, 1]; a freshly constructed vehicle has soc 0.5.
C1_SocWithinBounds ==
  /\ \A i \in 1..Len(evs) :
       UnitInterval(evs[i].soc) /\ UnitInterval(evs[i].minimum_required_soc)
  /\ last.op = "EVManager" =>
       \A i \in 1..Len(evs) : evs[i].soc.cls = "fin" /\ 2 * evs[i].soc.v = Pow2(FracBits)

\* C1 witness: an out-of-range or nan value was given to a setter, or an update
\* overshot, and the stored value sits on a bound.
C1_Witness ==
  /\ last.op \in {"set_soc", "set_minimum_required_soc"}
  /\ ~UnitInterval(last.args[1])
  /\ evs[last.ev + 1].soc = Fin(Pow2(FracBits))
  /\ evs[last.ev + 1].minimum_required_soc = Fin(0)

\* C2: after set_soc(x) a get_soc() returns max(0, min(1, x)) - x itself for x
\* in [0, 1], 0 below, 1 above - and get_soc leaves the vehicle as it is.
C2_SetThenGet ==
  \A i \in 1..Len(evs) :
    /\ get_soc(evs[i]).self = evs[i]
    /\ (last.op = "set_soc" /\ last.ev = i - 1) =>
         /\ get_soc(evs[i]).exc = "none"
         /\ get_soc(evs[i]).ret = <<Clamped(last.args[1])>>
         /\ UnitInterval(last.args[1]) => get_soc(evs[i]).ret = last.args

\* C2 witness: set_soc was called with a value above 1 and the getter gives 1.
C2_Witness ==
  /\ last.op = "set_soc"
  /\ last.args[1].cls = "fin" /\ last.args[1].v > Pow2(FracBits)
  /\ get_soc(evs[last.ev + 1]).ret = <<Fin(Pow2(FracBits))>>

\* C3: on a vehicle with a non-zero capacity, update_soc(p, t) from soc s
\* returns r = max(0, min(1, s + p * t * efficiency / capacity)) and stores r.
C3_UpdateStep ==
  last'.op = "update_soc" =>
    \A i \in {last'.ev + 1} : \A p \in {last'.args[1]} : \A t \in {last'.args[2]} :
      \A r \in {Clamped(FAdd(evs[i].soc,
                             FDiv(FMul(FMul(p, t), evs[i].charging_efficiency),
                                  evs[i].battery_capacity)))} :
        evs[i].battery_capacity.v # 0 =>
          /\ last'.exc = "none"
          /\ last'.ret = <<r>>
          /\ evs'[i].soc = r
          /\ UnitInterval(r)
C3_UpdateClamped == [][C3_UpdateStep]_vars

\* C3 witness: a discharge of twice the capacity was applied and update_soc
\* returned 0, the raw sum being below 0 whatever the soc was.
C3_Witness ==
  /\ last.op = "update_soc"
  /\ last.args = <<Lit(0 - 4, 1), Lit(1, 2)>>
  /\ evs[last.ev + 1].battery_capacity = Lit(1, 1)
  /\ last.ret = <<Fin(0)>>
  /\ evs[last.ev + 1].soc = Fin(0)

\* C4: get_charging_power_bounds returns (0, 0) when the vehicle is unavailable
\* and (minimum, nominal) power when it is available; is_available is False
\* after construction and afterwards the argument of the latest
\* set_availability call on that vehicle, no other call changing it.
C4_BoundsNow ==
  last.op = "get_charging_power_bounds" =>
    LET ev == evs[last.ev + 1]
    IN /\ last.exc = "none"
       /\ ~ev.is_available => last.ret = <<Fin(0), Fin(0)>>
       /\ ev.is_available =>
            last.ret = <<ev.minimum_charging_power, ev.nominal_charging_power>>
C4_AvailabilityStep ==
  /\ Len(evs') = Len(evs) \/ last'.op = "EVManager"
  /\ last'.op = "EVManager" => \A i \in 1..Len(evs') : evs'[i].is_available = FALSE
  /\ last'.op # "EVManager" =>
       \A i \in 1..Len(evs) :
         evs'[i].is_available =
           IF last'.op = "set_availability" /\ last'.ev = i - 1
           THEN last'.args[1] ELSE evs[i].is_available
C4_BoundsFollowAvailability == [](C4_BoundsNow) /\ [][C4_AvailabilityStep]_vars

\* C4 witness: the bounds were asked of an unavailable vehicle with non-zero
\* configured powers whose soc was changed meanwhile, and (0, 0) came back.
C4_Witness ==
  /\ last.op = "get_charging_power_bounds"
  /\ last.ret = <<Fin(0), Fin(0)>>
  /\ evs[last.ev + 1].minimum_charging_power # Fin(0)
  /\ evs[last.ev + 1].soc = Fin(Pow2(FracBits))

\* The configuration as the claims read it: the configured count (0 when
\* absent) and the length of a sequence (0 when absent).
ConfiguredCount ==
  IF "number_of_ev_loads" \in DOMAIN optim_conf THEN optim_conf["number_of_ev_loads"] ELSE 0
ConfiguredLen(j) ==
  IF ConfKeys[j] \in DOMAIN plant_conf THEN Len(plant_conf[ConfKeys[j]]) ELSE 0
SomeSequenceShort == \E j \in 1..5 : ConfiguredLen(j) < ConfiguredCount

\* C5: with a count n > 0 and a sequence that is missing or shorter than n,
\* construction ends in the configuration error with no vehicle constructed.
C5_IncompleteConfigFails ==
  (pc # "new" /\ ConfiguredCount > 0 /\ SomeSequenceShort) =>
    /\ pc = "failed"
    /\ last.op = "EVManager" /\ last.exc = "ValueError"
    /\ evs = <<>>

\* C5 witness: construction failed for a count of 2 or more where exactly one
\* sequence is short, holding one entry, and the four others are of full length.
C5_Witness ==
  /\ pc = "failed"
  /\ ConfiguredCount >= 2
  /\ \E j \in 1..5 :
       /\ ConfiguredLen(j) = 1
       /\ \A k \in 1..5 \ {j} : ConfiguredLen(k) = MaxLen

\* C6: with a count n > 0 and five sequences of at least n entries the registry
\* owns n vehicles, the one at position i with index i and entry i of each
\* sequence; the indices are unique.
C6_FleetMatchesConfig ==
  (pc # "new" /\ ConfiguredCount > 0 /\ ~SomeSequenceShort) =>
    /\ pc = "ready"
    /\ Len(evs) = ConfiguredCount
    /\ \A i \in 0..(ConfiguredCount - 1) :
         /\ evs[i + 1].ev_index = i
         /\ evs[i + 1].battery_capacity = plant_conf[ConfKeys[1]][i + 1]
         /\ evs[i + 1].charging_efficiency = plant_conf[ConfKeys[2]][i + 1]
         /\ evs[i + 1].nominal_charging_power = plant_conf[ConfKeys[3]][i + 1]
         /\ evs[i + 1].minimum_charging_power = plant_conf[ConfKeys[4]][i + 1]
         /\ evs[i + 1].consumption_efficiency = plant_conf[ConfKeys[5]][i + 1]
    /\ \A a, b \in 1..Len(evs) : a # b => evs[a].ev_index # evs[b].ev_index

\* C6 witness: a registry of two vehicles built from sequences of three entries.
C6_Witness ==
  /\ pc = "ready"
  /\ Len(evs) = 2
  /\ \A j \in 1..5 : ConfiguredLen(j) = 3

\* C7: get_ev(index) returns the vehicle with that index for 0 <= index <
\* len(evs) and None otherwise, raises nothing and changes nothing.
C7_GetEvStep ==
  last'.op = "get_ev" =>
    /\ last'.exc = "none"
    /\ evs' = evs /\ num_evs' = num_evs /\ pc' = pc
    /\ \A index \in {last'.ev} :
         IF 0 <= index /\ index < Len(evs)
         THEN last'.ret = <<evs[index + 1]>> /\ evs[index + 1].ev_index = index
         ELSE last'.ret = <<>>
C7_GetEvBoundsChecked == [][C7_GetEvStep]_vars

\* C7 witness: get_ev(-1) on a registry of two vehicles returned None.
C7_Witness ==
  /\ last.op = "get_ev"
  /\ last.ev = 0 - 1
  /\ Len(evs) = 2
  /\ last.ret = <<>>

\* C8: set_availability_schedule and set_range_requirements change no vehicle
\* and not the vehicle list, and raise nothing, whatever the index and array.
C8_HookStep ==
  last'.op \in {"set_availability_schedule", "set_range_requirements"} =>
    /\ last'.exc = "none"
    /\ evs' = evs /\ num_evs' = num_evs /\ pc' = pc
C8_HooksChangeNothing == [][C8_HookStep]_vars

\* C8 witness: an availability schedule starting with 1 was set for vehicle 0,
\* which is unavailable still, with a soc that is no longer the initial one.
C8_Witness ==
  /\ last.op = "set_availability_schedule"
  /\ last.ev = 0
  /\ last.args = <<(<<1, 0>>)>>
  /\ Len(evs) = 2
  /\ ~evs[1].is_available
  /\ evs[1].soc # Lit(5, 10)

\* The two conversions neither change the vehicle nor read its mutable state:
\* the result is the one a vehicle with other soc, availability and minimum
\* soc gives.
OtherState(ev) ==
  [ev EXCEPT !.soc = Fin(0), !.is_available = ~ev.is_available,
             !.minimum_required_soc = Fin(Pow2(FracBits))]
ConversionsPure(ev) ==
  \A x \in DistanceInputs \cup EnergyInputs :
    /\ km_to_energy(ev, x).self = ev
    /\ energy_to_km(ev, x).self = ev
    /\ km_to_energy(OtherState(ev), x).ret = km_to_energy(ev, x).ret
    /\ energy_to_km(OtherState(ev), x).ret = energy_to_km(ev, x).ret

PositiveFinite(x) == x.cls = "fin" /\ x.v > 0
\* A finite float with the full precision: not an underflowed result.
Normal(x) == x.cls = "fin" /\ (x.v >= MinNormal \/ 0 - x.v >= MinNormal)

\* |r - d| <= 5 * 2^-Prec * d for finite floats r and d >= 0.
WithinTolerance(r, d) ==
  \A diff \in {IF r.v >= d.v THEN r.v - d.v ELSE d.v - r.v} :
    IF Expo(d.v) >= Prec
    THEN diff <= 5 * Mant(d.v) * Pow2(Expo(d.v) - Prec)
    ELSE diff <= 5 * Mant(d.v) /\ diff * Pow2(Prec - Expo(d.v)) <= 5 * Mant(d.v)

\* C9 as claimed: energy_to_km(km_to_energy(d)) equals d for every distance
\* d >= 0 on a vehicle with positive consumption, and the conversions are pure.
C9_RoundTripExact ==
  pc = "ready" =>
    \A i \in 1..Len(evs) :
      /\ ConversionsPure(evs[i])
      /\ (last.op = "energy_to_km" /\ last.ev = i - 1
          /\ PositiveFinite(evs[i].consumption_efficiency)) =>
           \A d \in DistanceInputs :
             (d.v >= 0 /\ km_to_energy(evs[i], d).ret = last.args) => last.ret = <<d>>

\* C9 amended: the round trip gives d up to a relative error of 5 * 2^-Prec
\* whenever the four intermediate results are finite and normal (none
\* overflowed or underflowed), and exactly 0 for d = 0; the conversions are pure.
C9_RoundTripWithinTolerance ==
  pc = "ready" =>
    \A i \in 1..Len(evs) :
      /\ ConversionsPure(evs[i])
      /\ (last.op = "energy_to_km" /\ last.ev = i - 1
          /\ PositiveFinite(evs[i].consumption_efficiency)) =>
           \A d \in DistanceInputs :
             (d.v >= 0 /\ km_to_energy(evs[i], d).ret = last.args) =>
               /\ last.exc = "none"
               /\ d.v = 0 => last.ret = <<d>>
               /\ (/\ Normal(FMul(d, evs[i].consumption_efficiency))
                   /\ Normal(last.args[1])
                   /\ Normal(FDiv(last.args[1], Lit(1000, 1)))
                   /\ Normal(last.ret[1])) =>
                    WithinTolerance(last.ret[1], d)

\* C9 witness: a round trip whose intermediate results are all normal came
\* back different from the distance it started from.
C9_Witness ==
  /\ last.op = "energy_to_km"
  /\ last.exc = "none"
  /\ Normal(last.args[1]) /\ Normal(last.ret[1])
  /\ PositiveFinite(evs[1].consumption_efficiency)
  /\ \E d \in DistanceInputs :
       /\ d.v > 0
       /\ km_to_energy(evs[1], d).ret = last.args
       /\ Normal(FMul(d, evs[1].consumption_efficiency))
       /\ Normal(FDiv(last.args[1], Lit(1000, 1)))
       /\ last.ret[1] # d

\* C10: is_enabled() is true iff the configured count is > 0; a constructed
\* registry is enabled iff it owns a vehicle; a count of 0 or less, or none,
\* gives an empty disabled registry without validation or error.
C10_EnabledIffCount ==
  /\ last.op = "is_enabled" => last.ret = <<ConfiguredCount > 0>>
  /\ pc = "ready" => ((ConfiguredCount > 0) <=> (Len(evs) > 0))
  /\ pc = "ready" => ((num_evs > 0) <=> (Len(evs) > 0))
  /\ (pc # "new" /\ ConfiguredCount <= 0) =>
       pc = "ready" /\ evs = <<>> /\ (last.op = "EVManager" => last.exc = "none")

\* C10 witness: is_enabled() returned False on a registry constructed from two
\* empty dicts.
C10_Witness ==
  /\ pc = "ready"
  /\ last.op = "is_enabled"
  /\ last.ret = <<FALSE>>
  /\ DOMAIN optim_conf = {} /\ DOMAIN plant_conf = {}
  /\ evs = <<>>

\* The operations of a vehicle that C11 names.
VehicleOps ==
  {"set_soc", "set_minimum_required_soc", "set_availability", "km_to_energy",
   "energy_to_km", "get_current_range", "calculate_soc_delta", "update_soc",
   "get_charging_power_bounds"}

\* C11: on every vehicle of a successfully constructed registry every vehicle
\* operation returns and none ends in an error, whatever values the registry
\* accepted. (The code accepts a zero capacity and then divides by it.)
C11_NoOperationFails ==
  (pc = "ready" /\ last.op \in VehicleOps) => last.exc = "none"

\* C12: every vehicle of a successfully constructed registry has
\* 0 <= minimum_charging_power <= nominal_charging_power, and the bounds of an
\* available vehicle are a pair (lo, hi) with 0 <= lo <= hi. (The code stores
\* the configured powers unchecked.)
C12_PowerBoxNonEmpty ==
  pc = "ready" =>
    /\ \A i \in 1..Len(evs) :
         /\ FLe(Zero, evs[i].minimum_charging_power)
         /\ FLe(evs[i].minimum_charging_power, evs[i].nominal_charging_power)
    /\ (last.op = "get_charging_power_bounds" /\ evs[last.ev + 1].is_available) =>
         /\ Len(last.ret) = 2
         /\ FLe(Zero, last.ret[1])
         /\ FLe(last.ret[1], last.ret[2])

\* x > 0, for a float that is no nan.
Positive(x) == x.cls # "nan" /\ x.v > 0
\* A delta of at least old * 2^-(Prec - 1) in magnitude: one that an addition
\* to old cannot round away.
Registers(delta, old) ==
  \/ delta.cls = "inf"
  \/ /\ delta.cls = "fin"
     /\ \A m \in {AbsI(delta.v)} : m >= old.v \/ m * Pow2(Prec - 1) >= old.v

\* C13 as claimed: on a vehicle with positive capacity and efficiency and for a
\* positive time step, update_soc leaves soc as it is for power = 0, does not
\* lower it for power > 0 (1 stays 1), and for power < 0 does not raise it and
\* lowers it strictly when it was > 0.
C13_ExactStep ==
  last'.op = "update_soc" =>
    \A i \in {last'.ev + 1} : \A p \in {last'.args[1]} : \A t \in {last'.args[2]} :
      (/\ Positive(evs[i].battery_capacity)
       /\ Positive(evs[i].charging_efficiency)
       /\ Positive(t)) =>
        /\ last'.exc = "none"
        /\ (p.cls = "fin" /\ p.v = 0) => evs'[i].soc = evs[i].soc
        /\ Positive(p) =>
             /\ evs'[i].soc.v >= evs[i].soc.v
             /\ evs[i].soc = One => evs'[i].soc = One
        /\ (p.cls # "nan" /\ p.v < 0) =>
             /\ evs'[i].soc.v <= evs[i].soc.v
             /\ evs[i].soc.v > 0 => evs'[i].soc.v < evs[i].soc.v
C13_DirectionExact == [][C13_ExactStep]_vars

\* C13 amended: the same for finite capacity, efficiency, time step and power,
\* the strict decrease only when the computed delta registers: when its
\* magnitude is at least the old soc times 2^-(Prec - 1).
C13_RoundedStep ==
  last'.op = "update_soc" =>
    \A i \in {last'.ev + 1} : \A p \in {last'.args[1]} : \A t \in {last'.args[2]} :
      (/\ Positive(evs[i].battery_capacity) /\ IsFin(evs[i].battery_capacity)
       /\ Positive(evs[i].charging_efficiency) /\ IsFin(evs[i].charging_efficiency)
       /\ Positive(t) /\ IsFin(t)
       /\ IsFin(p)) =>
        /\ last'.exc = "none"
        /\ last'.ret = <<evs'[i].soc>>
        /\ p.v = 0 => evs'[i].soc = evs[i].soc
        /\ p.v > 0 =>
             /\ evs'[i].soc.v >= evs[i].soc.v
             /\ evs[i].soc = One => evs'[i].soc = One
        /\ p.v < 0 =>
             /\ evs'[i].soc.v <= evs[i].soc.v
             /\ \A d \in {calculate_soc_delta(evs[i], p, t).ret[1]} :
                  (evs[i].soc.v > 0 /\ Registers(d, evs[i].soc)) =>
                    evs'[i].soc.v < evs[i].soc.v
C13_DirectionRounded == [][C13_RoundedStep]_vars

\* C13 witness: a finite discharge on a finite vehicle lowered the soc to a
\* value strictly between 0 and the 0.75 it was set to.
C13_Witness ==
  /\ last.op = "update_soc"
  /\ last.args = <<Lit(0 - 4, 1), Lit(1, 2)>>
  /\ evs[1].battery_capacity = Lit(8, 1)
  /\ evs[1].soc.v > 0
  /\ evs[1].soc.v < Lit(3, 4).v
  /\ evs[1].soc.v > Lit(1, 2).v

\* The levels of the records a call logged.
Logged(call) == {call.log[k] : k \in 1..Len(call.log)}

\* C14: set_soc and set_minimum_required_soc called with a value outside
\* [0, 1] (nan included) log a warning and raise nothing; update_soc never
\* logs a warning, whatever soc + delta was.
C14_WarningsOnlyFromSetters ==
  /\ last.op \in {"set_soc", "set_minimum_required_soc"} =>
       /\ last.exc = "none"
       /\ ~UnitInterval(last.args[1]) => "warning" \in Logged(last)
  /\ last.op = "update_soc" => "warning" \notin Logged(last)

\* C14 witness: update_soc charged a vehicle of capacity 1 with a delta of 2,
\* so that soc + delta was above 1 whatever the soc, returned 1 and logged
\* only the debug record of set_soc.
C14_Witness ==
  /\ last.op = "update_soc"
  /\ last.args = <<Lit(4, 1), Lit(1, 2)>>
  /\ evs[last.ev + 1].battery_capacity = Lit(1, 1)
  /\ evs[last.ev + 1].charging_efficiency = One
  /\ last.ret = <<One>>
  /\ last.log = <<"debug">>

\* The fields of a vehicle set at construction and the ones a call may set.
StaticFields ==
  {"ev_index", "battery_capacity", "charging_efficiency", "nominal_charging_power",
   "minimum_charging_power", "consumption_efficiency"}
MutableFields == {"soc", "is_available", "minimum_required_soc"}
\* The fields a call of the operation may change.
Writes(op) ==
  CASE op \in {"set_soc", "update_soc"} -> {"soc"}
    [] op = "set_availability" -> {"is_available"}
    [] op = "set_minimum_required_soc" -> {"minimum_required_soc"}
    [] OTHER -> {}

\* C15: a call on vehicle i changes at most the field(s) of vehicle i that the
\* operation writes; every other vehicle, the static fields of vehicle i and
\* the number and order of the vehicles stay as they are; and what update_soc
\* stores does not depend on is_available or minimum_required_soc.
C15_FrameStep ==
  \A call \in {last'} : \A after \in {evs'} :
    call.op # "EVManager" =>
      /\ Len(after) = Len(evs)
      /\ num_evs' = num_evs
      /\ \A j \in 1..Len(evs) :
           IF j # call.ev + 1 THEN after[j] = evs[j]
           ELSE \A f \in (StaticFields \cup MutableFields) \ Writes(call.op) :
                  after[j][f] = evs[j][f]
      /\ call.op = "update_soc" =>
           \A i \in {call.ev + 1} :
             \A o \in {update_soc([evs[i] EXCEPT !.is_available = ~@,
                                                 !.minimum_required_soc =
                                                   IF @ = One THEN Zero ELSE One],
                                  call.args[1], call.args[2])} :
               /\ after[i].soc = o.self.soc
               /\ call.ret = o.ret
               /\ call.exc = o.exc
C15_CallsTouchOwnFieldOnly == [][C15_FrameStep]_vars

\* C15 witness: in a registry of two vehicles update_soc charged the first one
\* to 1 while it was unavailable and required a soc of 1, the second vehicle
\* keeping the availability and the soc of 0 it was given.
C15_Witness ==
  /\ Len(evs) = 2
  /\ last.op = "update_soc"
  /\ last.ev = 0
  /\ last.ret = <<One>>
  /\ evs[1].soc = One
  /\ ~evs[1].is_available
  /\ evs[1].minimum_required_soc = One
  /\ evs[2].soc = Zero
  /\ evs[2].is_available

====
